---- MODULE Spec2Model ----
(***************************************************************************)
(* Model of the posture monitoring engine, the React hook                  *)
(* useMonitoringEngine (src/unnamed/part_004): its lifecycle (start,       *)
(* pause, stop), the requestAnimationFrame loop, the hysteresis debounce   *)
(* of candidate issues (updateStableIssues), the primary issue, and the    *)
(* coaching layer (coachTick).                                             *)
(*                                                                         *)
(* Time is performance.now() in integer milliseconds.  A frame is given    *)
(* by the features the loop extracts from its landmarks (lines 489-532),   *)
(* in fixed point: offsets in thousandths, visibility in hundredths,       *)
(* angles in degrees.  The metrics and flags snapshots of a reminder's     *)
(* payload are copies of those features and are left out of the events;    *)
(* lastPrimaryChangeAtRef and the didLog refs are written and never read   *)
(* and are left out too.  Date.now() and performance.now() advance         *)
(* together: an event's ts is the page's time origin plus the clock.       *)
(*                                                                         *)
(* Two hooks of the pages around the engine are modelled with it:          *)
(* useCoachNotifier (src/src/lib/stats/compute.ts), which shows a toast    *)
(* for the engine's coach reminders, and useReminders                      *)
(* (src/src/hooks/useReminders.ts with src/src/lib/reminders/engine.ts),   *)
(* the periodic break, water and stretch reminders.                        *)
(***************************************************************************)
EXTENDS Integers, Sequences, FiniteSets, TLC

\* ----------------------------------------------------------------- bounds
\* The clock stops advancing at the MaxNow... of the specification; at most
\* MaxStartCalls calls of start().
MaxNow == 1500
MaxNowRun == 2200
MaxNowCoach == 300000
MaxNowLate == 840000
MaxStartCalls == 2
MaxNowCalib == 3520
MaxNowFps == 1085
MaxNowTrigger == 750000
MaxNowLive == 930000
MaxNowLog == 17480
MaxNowNotify == 660000
MaxNowRemind == 151000

\* The clock's steps between animation frames, and the clock when the model
\* starts.
FineSteps == {225}
CoachSteps == {90000}
InitNow == 1000
InitNowLate == 300000

\* ------------------------------------------------------- program constants
persistMs == 450
clearMs == 650
windowMs == 120000
badDominanceMs == 90000
continuousBadMs == 120000
cooldownMs == 360000
fpsCap == 30
enableFace == TRUE
MinLandmarks == 13
MinVisibility == 5
CalibrationSamples == 60
EventLogCap == 200

\* thresholds TH, in thousandths (headRollDeg in degrees)
headRollDeg == 12
headPitchDown == 60
headPitchUp == 30
shouldersUnevenY == 30
shouldersDepthZ == 140
bodyLeanX == 50
tooCloseMul == 135
tooFarMul == 75

\* null / undefined of a numeric ref
Null == 0 - 1

ISSUE_ORDER ==
  << "too_close", "too_far", "head_down", "head_up", "head_tilt_left",
     "head_tilt_right", "shoulders_unlevel", "shoulders_depth_misaligned",
     "body_lean_left", "body_lean_right", "back_not_straight", "slouch",
     "lean_left", "lean_right" >>

Issues == { ISSUE_ORDER[i] : i \in 1..Len(ISSUE_ORDER) }

isBadState(s) == s # "good" /\ s # "no_person"

\* ------------------------------------------------------------ sequences
Max(a, b) == IF a >= b THEN a ELSE b
Min(a, b) == IF a <= b THEN a ELSE b

InSeq(s, x) == \E i \in 1..Len(s) : s[i] = x

\* s.filter(P) for the issues of ISSUE_ORDER that are in the set S
RECURSIVE FilterOrder(_, _)
FilterOrder(order, S) ==
  IF order = << >> THEN << >>
  ELSE IF Head(order) \in S
       THEN << Head(order) >> \o FilterOrder(Tail(order), S)
       ELSE FilterOrder(Tail(order), S)

\* ------------------------------------------------ Map<PostureState, number>
\* A JavaScript Map keeps its keys in insertion order: a sequence of entries.
MapHas(m, k) == \E i \in 1..Len(m) : m[i].k = k

MapGet(m, k, dflt) ==
  IF MapHas(m, k) THEN m[CHOOSE i \in 1..Len(m) : m[i].k = k].v ELSE dflt

MapSet(m, k, v) ==
  IF MapHas(m, k)
  THEN [ i \in 1..Len(m) |-> IF m[i].k = k THEN [k |-> k, v |-> v] ELSE m[i] ]
  ELSE Append(m, [k |-> k, v |-> v])

\* ---------------------------------------------------------------- frames
\* n: landmarks of the first pose (0: none); vis: the lower shoulder
\* visibility; face: the face area signal, Null without face landmarks.
BaseFrame ==
  [ n |-> 33, vis |-> 90, rollDeg |-> 0, noseEyeDeltaY |-> 45,
    shouldersYDiff |-> 10, shouldersZDiff |-> 50, shoulderX |-> 500,
    neckY |-> 250, face |-> 100 ]

Frames ==
  { [BaseFrame EXCEPT !.n = 0],
    [BaseFrame EXCEPT !.n = 12],
    [BaseFrame EXCEPT !.vis = 4],
    BaseFrame,
    [BaseFrame EXCEPT !.noseEyeDeltaY = 70],
    [BaseFrame EXCEPT !.shouldersYDiff = 40],
    [BaseFrame EXCEPT !.noseEyeDeltaY = 70, !.shouldersYDiff = 40] }

\* The frames of the runs in coaching-scale steps.
CoachFrames ==
  { [BaseFrame EXCEPT !.n = 0],
    BaseFrame,
    [BaseFrame EXCEPT !.noseEyeDeltaY = 70],
    [BaseFrame EXCEPT !.shouldersYDiff = 40] }

\* --------------------------------------------------------------- baselines
\* A baseline is unset (null) or the mean of its samples, kept as the exact
\* fraction num / den.
NoBaseline == [ set |-> FALSE, num |-> 0, den |-> 1 ]

RECURSIVE SumSeq(_)
SumSeq(s) == IF s = << >> THEN 0 ELSE Head(s) + SumSeq(Tail(s))

Mean(s) == [ set |-> TRUE, num |-> SumSeq(s), den |-> Len(s) ]

\* PoseCalibration sampling on, and recomputing, after the baselines are set.
PoseCalibrationAlways(bx, by, samples, f) ==
  LET pushed == Append(samples, [shoulderX |-> f.shoulderX, neckY |-> f.neckY])
  IN IF Len(pushed) >= CalibrationSamples
     THEN [ shoulderX |-> Mean([i \in 1..Len(pushed) |-> pushed[i].shoulderX]),
            neckY |-> Mean([i \in 1..Len(pushed) |-> pushed[i].neckY]),
            samples |-> pushed ]
     ELSE [ shoulderX |-> bx, neckY |-> by, samples |-> pushed ]

\* lines 534-544: the pose baselines, sampled until both are set
PoseCalibration(bx, by, samples, f) ==
  IF ~bx.set \/ ~by.set
  THEN LET pushed == Append(samples, [shoulderX |-> f.shoulderX, neckY |-> f.neckY])
       IN IF Len(pushed) >= CalibrationSamples
          THEN [ shoulderX |-> Mean([i \in 1..Len(pushed) |-> pushed[i].shoulderX]),
                 neckY |-> Mean([i \in 1..Len(pushed) |-> pushed[i].neckY]),
                 samples |-> pushed ]
          ELSE [ shoulderX |-> bx, neckY |-> by, samples |-> pushed ]
  ELSE [ shoulderX |-> bx, neckY |-> by, samples |-> samples ]

\* lines 562-588: whether this frame yields a face area
FaceSeen(f, face) == enableFace /\ face /\ f.face # Null

\* FaceCalibration setting the baseline one sample late.
FaceCalibrationLate(bf, samples, f, face) ==
  IF FaceSeen(f, face) /\ ~bf.set
  THEN LET pushed == Append(samples, f.face)
       IN IF Len(pushed) > CalibrationSamples
          THEN [ face |-> Mean(pushed), samples |-> pushed ]
          ELSE [ face |-> bf, samples |-> pushed ]
  ELSE [ face |-> bf, samples |-> samples ]

\* lines 575-581: the face baseline, sampled until it is set
FaceCalibration(bf, samples, f, face) ==
  IF FaceSeen(f, face) /\ ~bf.set
  THEN LET pushed == Append(samples, f.face)
       IN IF Len(pushed) >= CalibrationSamples
          THEN [ face |-> Mean(pushed), samples |-> pushed ]
          ELSE [ face |-> bf, samples |-> pushed ]
  ELSE [ face |-> bf, samples |-> samples ]

\* ------------------------------------------------------------- classifier
\* lines 513-525, 551-555, 582-586: the flags of one frame.  bf is the face
\* baseline before this frame's calibration, bx the shoulder baseline after.
tooClose(f, bf, face) ==
  FaceSeen(f, face) /\ bf.set /\ f.face * 100 * bf.den > bf.num * tooCloseMul
tooFar(f, bf, face) ==
  FaceSeen(f, face) /\ bf.set /\ f.face * 100 * bf.den < bf.num * tooFarMul
headDown(f) == f.noseEyeDeltaY > headPitchDown
headUp(f) == f.noseEyeDeltaY < headPitchUp
headTiltLeft(f) == f.rollDeg < 0 - headRollDeg
headTiltRight(f) == f.rollDeg > headRollDeg
shouldersUneven(f) == f.shouldersYDiff > shouldersUnevenY
shouldersDepthMisaligned(f) == f.shouldersZDiff > shouldersDepthZ
isBodyLeaningLeft(f, bx) ==
  IF bx.set THEN f.shoulderX * bx.den - bx.num < (0 - bodyLeanX) * bx.den
  ELSE f.shoulderX - 500 < 0 - bodyLeanX
isBodyLeaningRight(f, bx) ==
  IF bx.set THEN f.shoulderX * bx.den - bx.num > bodyLeanX * bx.den
  ELSE f.shoulderX - 500 > bodyLeanX

\* lines 596-612: the candidate issues, in the order they are pushed
Candidates(f, bf, bx, face) ==
  (IF tooClose(f, bf, face) THEN << "too_close" >> ELSE << >>) \o
  (IF tooFar(f, bf, face) THEN << "too_far" >> ELSE << >>) \o
  (IF headDown(f) THEN << "head_down" >> ELSE << >>) \o
  (IF headUp(f) THEN << "head_up" >> ELSE << >>) \o
  (IF headTiltLeft(f) THEN << "head_tilt_left" >> ELSE << >>) \o
  (IF headTiltRight(f) THEN << "head_tilt_right" >> ELSE << >>) \o
  (IF shouldersUneven(f) THEN << "shoulders_unlevel" >> ELSE << >>) \o
  (IF shouldersDepthMisaligned(f) THEN << "shoulders_depth_misaligned" >> ELSE << >>) \o
  (IF isBodyLeaningLeft(f, bx) THEN << "body_lean_left" >> ELSE << >>) \o
  (IF isBodyLeaningRight(f, bx) THEN << "body_lean_right" >> ELSE << >>)

\* ------------------------------------------------------------- stabilizer
EmptyIssueMap == [ i \in {} |-> 0 ]

NewEntry == [ since |-> Null, lastSeen |-> 0, active |-> FALSE ]

\* StableEntry with a pending issue keeping its since over a tick without it.
StableEntryKeepsSince(prev, t, present) ==
  IF present
  THEN LET since1 == IF prev.since = Null THEN t ELSE prev.since
       IN [ since |-> since1, lastSeen |-> t,
            active |-> prev.active \/ (t - since1 >= persistMs) ]
  ELSE IF prev.active /\ t - prev.lastSeen >= clearMs
       THEN [ prev EXCEPT !.active = FALSE, !.since = Null ]
       ELSE prev

\* StableEntry clearing after persistMs instead of clearMs.
StableEntrySymmetric(prev, t, present) ==
  IF present
  THEN LET since1 == IF prev.since = Null THEN t ELSE prev.since
       IN [ since |-> since1, lastSeen |-> t,
            active |-> prev.active \/ (t - since1 >= persistMs) ]
  ELSE IF prev.active
       THEN IF t - prev.lastSeen >= persistMs
            THEN [ prev EXCEPT !.active = FALSE, !.since = Null ]
            ELSE prev
       ELSE [ prev EXCEPT !.since = Null ]

\* StableEntry with an active issue that is never cleared.
StableEntrySticky(prev, t, present) ==
  IF present
  THEN LET since1 == IF prev.since = Null THEN t ELSE prev.since
       IN [ since |-> since1, lastSeen |-> t,
            active |-> prev.active \/ (t - since1 >= persistMs) ]
  ELSE IF prev.active THEN prev
       ELSE [ prev EXCEPT !.since = Null ]

\* lines 308-326: one issue's entry after a tick at time t
StableEntry(prev, t, present) ==
  IF present
  THEN LET since1 == IF prev.since = Null THEN t ELSE prev.since
       IN [ since |-> since1, lastSeen |-> t,
            active |-> prev.active \/ (t - since1 >= persistMs) ]
  ELSE IF prev.active
       THEN IF t - prev.lastSeen >= clearMs
            THEN [ prev EXCEPT !.active = FALSE, !.since = Null ]
            ELSE prev
       ELSE [ prev EXCEPT !.since = Null ]

\* lines 303-329: the debounce map after a tick
updateStableIssues(map, t, candidates) ==
  [ i \in Issues |->
      StableEntry(IF i \in DOMAIN map THEN map[i] ELSE NewEntry, t,
                  InSeq(candidates, i)) ]

\* line 331: the active issues, in ISSUE_ORDER
ActiveIssues(map) ==
  FilterOrder(ISSUE_ORDER, { i \in DOMAIN map : map[i].active })

\* lines 334-337
RECURSIVE FirstIncluded(_, _)
FirstIncluded(order, actives) ==
  IF order = << >> THEN "good"
  ELSE IF InSeq(actives, Head(order)) THEN Head(order)
       ELSE FirstIncluded(Tail(order), actives)

\* pickPrimary taking the last active issue of the list.
pickPrimaryLast(actives) == actives[Len(actives)]

pickPrimary(actives) == FirstIncluded(ISSUE_ORDER, actives)

\* line 622
Primary(newActives) ==
  IF Len(newActives) > 0 THEN pickPrimary(newActives) ELSE "good"

\* ------------------------------------------------------------ coach layer
\* The coach refs as one record (lines 198-206).
CoachReset ==
  [ lastTick |-> Null, windowStart |-> Null, goodMs |-> 0, badMs |-> 0,
    stateMs |-> << >>, continuousMs |-> << >>, lastReminderAt |-> 0 ]

\* CooledDown without a cooldown.
CooledDownAlways(t, lastReminderAt) == t >= lastReminderAt

\* line 388
CooledDown(t, lastReminderAt) == t - lastReminderAt >= cooldownMs

\* lines 368-374: per-state time of the window
RECURSIVE AddToEach(_, _, _)
AddToEach(m, keys, dt) ==
  IF keys = << >> THEN m
  ELSE AddToEach(MapSet(m, Head(keys), MapGet(m, Head(keys), 0) + dt),
                 Tail(keys), dt)

\* StateMsAfter counting good on every tick, also when an issue is active.
StateMsAfterGoodToo(stateMs, actives, dt) ==
  AddToEach(stateMs, << "good" >> \o actives, dt)

StateMsAfter(stateMs, actives, dt) ==
  IF Len(actives) = 0 THEN AddToEach(stateMs, << "good" >>, dt)
  ELSE AddToEach(stateMs, actives, dt)

\* Streaks keeping the streak of a state that is not active.
RECURSIVE StreaksKeep(_, _, _, _)
StreaksKeep(cont, keys, activeSet, dt) ==
  IF keys = << >> THEN cont
  ELSE LET k == Head(keys)
           prev == MapGet(cont, k, 0)
       IN StreaksKeep(MapSet(cont, k, IF InSeq(activeSet, k) THEN prev + dt
                                      ELSE prev),
                      Tail(keys), activeSet, dt)

\* lines 377-386: add dt to each active state's streak, reset the others
RECURSIVE Streaks(_, _, _, _)
Streaks(cont, keys, activeSet, dt) ==
  IF keys = << >> THEN cont
  ELSE LET k == Head(keys)
           prev == MapGet(cont, k, 0)
       IN Streaks(MapSet(cont, k, IF InSeq(activeSet, k) THEN prev + dt ELSE 0),
                  Tail(keys), activeSet, dt)

RECURSIVE NewKeys(_, _)
NewKeys(cont, activeSet) ==
  IF activeSet = << >> THEN << >>
  ELSE (IF MapHas(cont, Head(activeSet)) THEN << >> ELSE << Head(activeSet) >>)
       \o NewKeys(cont, Tail(activeSet))

\* ContinuousAfter forgetting the streaks of the earlier ticks.
ContinuousAfterFresh(cont, actives, dt) ==
  LET activeSet == IF Len(actives) > 0 THEN actives ELSE << "good" >>
      keys == [ i \in 1..Len(cont) |-> cont[i].k ] \o NewKeys(cont, activeSet)
  IN Streaks([ i \in 1..Len(cont) |-> [ k |-> cont[i].k, v |-> 0 ] ],
             keys, activeSet, dt)

ContinuousAfter(cont, actives, dt) ==
  LET activeSet == IF Len(actives) > 0 THEN actives ELSE << "good" >>
      keys == [ i \in 1..Len(cont) |-> cont[i].k ] \o NewKeys(cont, activeSet)
  IN Streaks(cont, keys, activeSet, dt)

\* lines 392-393: the first active bad state whose streak reached
\* continuousBadMs, as an index of actives (0: none)
RECURSIVE FirstSustained(_, _, _)
FirstSustained(actives, cont, i) ==
  IF i > Len(actives) THEN 0
  ELSE IF isBadState(actives[i]) /\ MapGet(cont, actives[i], 0) >= continuousBadMs
       THEN i
       ELSE FirstSustained(actives, cont, i + 1)

\* lines 422-429: the bad state with the most time in the window; the first
\* inserted wins a tie, "none" is undefined
RECURSIVE TopBad(_, _, _, _)
TopBad(stateMs, i, topBad, topMs) ==
  IF i > Len(stateMs) THEN topBad
  ELSE IF isBadState(stateMs[i].k) /\ stateMs[i].v > topMs
       THEN TopBad(stateMs, i + 1, stateMs[i].k, stateMs[i].v)
       ELSE TopBad(stateMs, i + 1, topBad, topMs)

\* lines 397, 435, 483: Date.now() at the time t of performance.now(); the
\* wall clock is the page's time origin plus the time since
timeOrigin == 5 * 1000000

DateNow(t) == timeOrigin + t

Reminder(t, states, primary, goodMs, badMs, topBad) ==
  [ type |-> "coach_reminder", ts |-> DateNow(t),
    payload |-> [ states |-> states, primary |-> primary, windowMs |-> windowMs,
                  goodMs |-> goodMs, badMs |-> badMs, topBad |-> topBad ] ]

\* WindowEnd rolling the window only when it emits a reminder.
WindowEndRollsOnFire(c, t, actives, primary, cooledDown) ==
  LET elapsed == IF c.windowStart = Null \/ c.windowStart = 0
                 THEN 0 ELSE t - c.windowStart
      fire == cooledDown /\ c.badMs >= badDominanceMs
  IN IF elapsed >= windowMs /\ fire
     THEN [ c |-> [ c EXCEPT !.windowStart = t, !.goodMs = 0, !.badMs = 0,
                             !.stateMs = << >>, !.lastReminderAt = t ],
            ev |-> << Reminder(t,
                        IF Len(actives) > 0 THEN actives ELSE << "good" >>,
                        IF Len(actives) > 0 THEN primary ELSE "good",
                        c.goodMs, c.badMs,
                        TopBad(c.stateMs, 1, "none", 0)) >> ]
     ELSE [ c |-> c, ev |-> << >> ]

\* lines 416-454: the window-end reminder and the rollover, from the state c
\* the accumulation left
WindowEnd(c, t, actives, primary, cooledDown) ==
  LET elapsed == IF c.windowStart = Null \/ c.windowStart = 0
                 THEN 0 ELSE t - c.windowStart
  IN IF elapsed >= windowMs
     THEN LET fire == cooledDown /\ c.badMs >= badDominanceMs
          IN [ c |-> [ c EXCEPT !.windowStart = t, !.goodMs = 0, !.badMs = 0,
                                !.stateMs = << >>,
                                !.lastReminderAt = IF fire THEN t ELSE @ ],
               ev |-> IF fire
                      THEN << Reminder(t,
                                IF Len(actives) > 0 THEN actives ELSE << "good" >>,
                                IF Len(actives) > 0 THEN primary ELSE "good",
                                c.goodMs, c.badMs,
                                TopBad(c.stateMs, 1, "none", 0)) >>
                      ELSE << >> ]
     ELSE [ c |-> c, ev |-> << >> ]

\* coachTick with an immediate reminder that clears every streak.
coachTickResetsAll(c, t, actives, primary) ==
  IF primary = "no_person" THEN [ c |-> c, ev |-> << >> ]
  ELSE IF c.lastTick = Null
  THEN [ c |-> [ c EXCEPT !.lastTick = t, !.windowStart = t ], ev |-> << >> ]
  ELSE
    LET dt == Max(0, t - c.lastTick)
        badNow == \E i \in 1..Len(actives) : isBadState(actives[i])
        c1 == [ c EXCEPT
                  !.lastTick = t,
                  !.windowStart = IF @ = Null THEN t ELSE @,
                  !.badMs = IF badNow THEN @ + dt ELSE @,
                  !.goodMs = IF badNow THEN @ ELSE @ + dt,
                  !.stateMs = StateMsAfter(@, actives, dt),
                  !.continuousMs = ContinuousAfter(@, actives, dt) ]
        cooledDown == CooledDown(t, c.lastReminderAt)
        hit == FirstSustained(actives, c1.continuousMs, 1)
    IN IF cooledDown /\ hit # 0
       THEN [ c |-> [ c1 EXCEPT !.lastReminderAt = t,
                                !.continuousMs = << >> ],
              ev |-> << Reminder(t, actives, primary, c1.goodMs, c1.badMs,
                                 actives[hit]) >> ]
       ELSE WindowEnd(c1, t, actives, primary, cooledDown)

\* lines 339-455: the coach state after a tick and the events it emits
coachTick(c, t, actives, primary) ==
  IF primary = "no_person" THEN [ c |-> c, ev |-> << >> ]
  ELSE IF c.lastTick = Null
  THEN [ c |-> [ c EXCEPT !.lastTick = t, !.windowStart = t ], ev |-> << >> ]
  ELSE
    LET dt == Max(0, t - c.lastTick)
        badNow == \E i \in 1..Len(actives) : isBadState(actives[i])
        c1 == [ c EXCEPT
                  !.lastTick = t,
                  !.windowStart = IF @ = Null THEN t ELSE @,
                  !.badMs = IF badNow THEN @ + dt ELSE @,
                  !.goodMs = IF badNow THEN @ ELSE @ + dt,
                  !.stateMs = StateMsAfter(@, actives, dt),
                  !.continuousMs = ContinuousAfter(@, actives, dt) ]
        cooledDown == CooledDown(t, c.lastReminderAt)
        hit == FirstSustained(actives, c1.continuousMs, 1)
    IN IF cooledDown /\ hit # 0
       THEN [ c |-> [ c1 EXCEPT !.lastReminderAt = t,
                                !.continuousMs = MapSet(@, actives[hit], 0) ],
              ev |-> << Reminder(t, actives, primary, c1.goodMs, c1.badMs,
                                 actives[hit]) >> ]
       ELSE WindowEnd(c1, t, actives, primary, cooledDown)

\* emit without the cap.
emitUncapped(log, e) == << e >> \o log

\* line 221: the event log, newest first, at most EventLogCap events
emit(log, e) == SubSeq(<< e >> \o log, 1, Min(EventLogCap, Len(log) + 1))

RECURSIVE EmitAll(_, _)
EmitAll(log, evs) ==
  IF evs = << >> THEN log ELSE EmitAll(emit(log, Head(evs)), Tail(evs))

\* -------------------------------------------------------- periodic reminders
\* src/src/lib/reminders/engine.ts and src/src/hooks/useReminders.ts.  The
\* argument t of an operator is the value of Date.now() when the code
\* calls it.
ReminderTypes == << "break", "water", "stretch" >>

\* settings.reminders, the minutes the user has configured
ReminderSettings == [ breakMin |-> 1, waterMin |-> 2, stretchMin |-> 2 ]

PollMs == 5000
SnoozeMin == 10
MsPerMin == 60000

\* engine.ts lines 18-21
defaultReminderState(t) ==
  [ lastBreakTs |-> t, lastWaterTs |-> t, lastStretchTs |-> t,
    snoozeUntilTs |-> Null ]

\* engine.ts lines 23-38
shouldTrigger(type, settings, state, t) ==
  IF state.snoozeUntilTs # Null /\ t < state.snoozeUntilTs THEN FALSE
  ELSE LET mins == IF type = "break" THEN settings.breakMin
                   ELSE IF type = "water" THEN settings.waterMin
                   ELSE settings.stretchMin
           last == IF type = "break" THEN state.lastBreakTs
                   ELSE IF type = "water" THEN state.lastWaterTs
                   ELSE state.lastStretchTs
       IN t - last >= mins * MsPerMin

\* engine.ts lines 40-45
markDone(type, state, t) ==
  IF type = "break" THEN [ state EXCEPT !.lastBreakTs = t ]
  ELSE IF type = "water" THEN [ state EXCEPT !.lastWaterTs = t ]
  ELSE [ state EXCEPT !.lastStretchTs = t ]

\* engine.ts lines 47-49
snoozeMinutes(state, minutes, t) ==
  [ state EXCEPT !.snoozeUntilTs = t + minutes * MsPerMin ]

\* engine.ts lines 51-64, without the id and the session
eventForReminder(type, t) ==
  [ ts |-> t,
    type |-> IF type = "break" THEN "break_reminder"
             ELSE IF type = "water" THEN "water_reminder"
             ELSE "stretch_reminder" ]

\* markDone for each type of the sequence types
RECURSIVE MarkAllDone(_, _, _)
MarkAllDone(types, state, t) ==
  IF types = << >> THEN state
  ELSE MarkAllDone(Tail(types), markDone(Head(types), state, t), t)

\* ------------------------------------------------------------------ state
VARIABLES
  now,                  \* performance.now()
  lastFrameTs,          \* lastFrameTsRef
  runningRef, pausedRef, isRunning, isPaused,
  starting,             \* calls of start() in flight, per await they wait at
  startCalls,           \* calls of start() made so far
  rafRef,               \* rafRef.current is an animation frame request
  loops,                \* animation frame requests for loop not yet run
  streamRef, poseRef, faceRef,      \* the ref holds a stream / a landmarker
  currentPostureState, primaryRef, activeStates, distanceSignal, events,
  baselineFace, baselineFaceSamples,
  baselineShoulderX, baselineNeckY, baselinePoseSamples,
  issueMap,             \* issueMapRef
  coach,                \* the coach refs
  candRun,              \* history: per issue, the time of the first tick of
                        \* its current unbroken run of candidate ticks
  lost,                 \* history: the latest frame of this run that was not
                        \* skipped for low visibility had no person
  reminderTicks,        \* history: the ticks of this run's coach reminders
  firstStart,           \* history: the engine state the first start() left
  stoppedAt,            \* history: the calls of start() made before the
                        \* latest stop(), Null before the first stop()
  lastHandledTsRef,     \* useCoachNotifier: ts of the last reminder it showed
  toasts,               \* the ts of the reminders a toast was shown for
  effectDue,            \* the event log changed since the notifier's effect
                        \* last ran
  reminderState,        \* useReminders: state (the last ts per type, the snooze)
  permission,           \* Notification.permission
  pendingNotify,        \* the reminder types whose callback awaits notify()
  appEvents             \* the events useReminders gave to onEvent, oldest first

lifecycle == << runningRef, pausedRef, isRunning, isPaused >>
inputs == << streamRef, poseRef, faceRef >>
published == << currentPostureState, primaryRef, activeStates >>
baselines == << baselineFace, baselineFaceSamples, baselineShoulderX,
                baselineNeckY, baselinePoseSamples >>
history == << candRun, lost, reminderTicks, firstStart, stoppedAt >>
notifier == << lastHandledTsRef, toasts, effectDue >>
reminders == << reminderState, permission, pendingNotify, appEvents >>

vars == << now, lastFrameTs, lifecycle, starting, startCalls, rafRef, loops,
           inputs, published, distanceSignal, events, baselines, issueMap,
           coach, history, notifier, reminders >>

\* The awaits of start(): getUserMedia; video.play() and
\* createPoseLandmarker (no ref changes between the two); createFaceLandmarker.
StartAwaits == { "camera", "pose", "face" }

NoRun == [ i \in Issues |-> Null ]

\* The state of section 3 of the design and the lifecycle flags.
EngineState ==
  [ runningRef |-> runningRef, pausedRef |-> pausedRef,
    isRunning |-> isRunning, isPaused |-> isPaused,
    lastFrameTs |-> lastFrameTs,
    baselineFace |-> baselineFace, baselineFaceSamples |-> baselineFaceSamples,
    baselineShoulderX |-> baselineShoulderX, baselineNeckY |-> baselineNeckY,
    baselinePoseSamples |-> baselinePoseSamples,
    issueMap |-> issueMap, activeStates |-> activeStates,
    primaryRef |-> primaryRef, currentPostureState |-> currentPostureState,
    coach |-> coach ]

\* lines 127-206: the refs and state of a mounted hook
Init ==
  /\ now = InitNow
  /\ lastFrameTs = 0
  /\ runningRef = FALSE /\ pausedRef = FALSE
  /\ isRunning = FALSE /\ isPaused = FALSE
  /\ starting = [ a \in StartAwaits |-> 0 ]
  /\ startCalls = 0
  /\ rafRef = FALSE /\ loops = 0
  /\ streamRef = FALSE /\ poseRef = FALSE /\ faceRef = FALSE
  /\ currentPostureState = "no_person" /\ primaryRef = "no_person"
  /\ activeStates = << >>
  /\ distanceSignal = Null
  /\ events = << >>
  /\ baselineFace = NoBaseline /\ baselineFaceSamples = << >>
  /\ baselineShoulderX = NoBaseline /\ baselineNeckY = NoBaseline
  /\ baselinePoseSamples = << >>
  /\ issueMap = EmptyIssueMap
  /\ coach = CoachReset
  /\ candRun = NoRun /\ lost = FALSE /\ reminderTicks = << >>
  /\ firstStart = << >>
  /\ stoppedAt = Null
  /\ lastHandledTsRef = 0 /\ toasts = << >> /\ effectDue = FALSE
  /\ reminderState = defaultReminderState(DateNow(now))
  /\ permission = "default" /\ pendingNotify = {} /\ appEvents = << >>

\* ------------------------------------------------------------- lifecycle
\* lines 689-695: start() up to its first await.  A call while running
\* returns at once; one without the video element throws.
StartCall(attached) ==
  /\ startCalls < MaxStartCalls
  /\ startCalls' = startCalls + 1
  /\ starting' = IF runningRef \/ ~attached THEN starting
                 ELSE [ starting EXCEPT !["camera"] = @ + 1 ]
  /\ UNCHANGED << now, lastFrameTs, lifecycle, rafRef, loops, inputs,
                  published, distanceSignal, events, baselines, issueMap,
                  coach, history, notifier, reminders >>

\* lines 710-740: start() after its last await
StartFinish ==
  /\ runningRef' = TRUE /\ pausedRef' = FALSE
  /\ isRunning' = TRUE /\ isPaused' = FALSE
  /\ lastFrameTs' = 0
  /\ baselineFace' = NoBaseline /\ baselineFaceSamples' = << >>
  /\ baselineShoulderX' = NoBaseline /\ baselineNeckY' = NoBaseline
  /\ baselinePoseSamples' = << >>
  /\ issueMap' = EmptyIssueMap
  /\ activeStates' = << >>
  /\ primaryRef' = "good" /\ currentPostureState' = "good"
  /\ coach' = CoachReset
  /\ rafRef' = TRUE /\ loops' = loops + 1
  /\ candRun' = NoRun /\ lost' = FALSE /\ reminderTicks' = << >>
  /\ firstStart' = IF firstStart = << >> THEN << EngineState' >> ELSE firstStart
  /\ UNCHANGED << now, startCalls, distanceSignal, events, stoppedAt,
                  notifier, reminders >>

\* lines 695-701: getUserMedia resolves
StartCamera ==
  /\ starting["camera"] > 0
  /\ starting' = [ starting EXCEPT !["camera"] = @ - 1, !["pose"] = @ + 1 ]
  /\ streamRef' = TRUE
  /\ UNCHANGED << now, lastFrameTs, lifecycle, startCalls, rafRef, loops,
                  poseRef, faceRef, published, distanceSignal, events,
                  baselines, issueMap, coach, history, notifier, reminders >>

\* lines 705-708: video.play() and createPoseLandmarker resolve, and the
\* face landmarker is asked for
StartPose ==
  /\ enableFace
  /\ starting["pose"] > 0
  /\ starting' = [ starting EXCEPT !["pose"] = @ - 1, !["face"] = @ + 1 ]
  /\ poseRef' = TRUE
  /\ UNCHANGED << now, lastFrameTs, lifecycle, startCalls, rafRef, loops,
                  streamRef, faceRef, published, distanceSignal, events,
                  baselines, issueMap, coach, history, notifier, reminders >>

\* lines 708-740: createFaceLandmarker resolves and start() runs to its end
StartFace ==
  /\ starting["face"] > 0
  /\ starting' = [ starting EXCEPT !["face"] = @ - 1 ]
  /\ faceRef' = TRUE
  /\ UNCHANGED << streamRef, poseRef >>
  /\ StartFinish

\* StartFail with the engine marked running before the awaits.
StartFailLeavesRunning ==
  \E a \in StartAwaits :
    /\ starting[a] > 0
    /\ starting' = [ starting EXCEPT ![a] = @ - 1 ]
    /\ runningRef' = TRUE /\ isRunning' = TRUE
    /\ UNCHANGED << now, lastFrameTs, pausedRef, isPaused, startCalls, rafRef,
                    loops, inputs, published, distanceSignal, events,
                    baselines, issueMap, coach, history, notifier, reminders >>

\* lines 695-708: an await of start() rejects and start() throws
StartFail ==
  \E a \in StartAwaits :
    /\ starting[a] > 0
    /\ starting' = [ starting EXCEPT ![a] = @ - 1 ]
    /\ UNCHANGED << now, lastFrameTs, lifecycle, startCalls, rafRef, loops,
                    inputs, published, distanceSignal, events, baselines,
                    issueMap, coach, history, notifier, reminders >>

\* Stop leaving the debounce map as it is.
StopKeepsIssueMap ==
  /\ runningRef' = FALSE /\ pausedRef' = FALSE
  /\ isRunning' = FALSE /\ isPaused' = FALSE
  /\ loops' = IF rafRef /\ loops > 0 THEN loops - 1 ELSE loops
  /\ rafRef' = FALSE
  /\ poseRef' = FALSE /\ faceRef' = FALSE /\ streamRef' = FALSE
  /\ baselineFace' = NoBaseline /\ baselineFaceSamples' = << >>
  /\ baselineShoulderX' = NoBaseline /\ baselineNeckY' = NoBaseline
  /\ baselinePoseSamples' = << >>
  /\ activeStates' = << >>
  /\ distanceSignal' = Null
  /\ currentPostureState' = "no_person" /\ primaryRef' = "no_person"
  /\ coach' = CoachReset
  /\ candRun' = NoRun /\ lost' = FALSE /\ reminderTicks' = << >>
  /\ stoppedAt' = startCalls
  /\ UNCHANGED << now, lastFrameTs, starting, startCalls, events, firstStart,
                  issueMap, notifier, reminders >>

\* lines 232-275
Stop ==
  /\ runningRef' = FALSE /\ pausedRef' = FALSE
  /\ isRunning' = FALSE /\ isPaused' = FALSE
  /\ loops' = IF rafRef /\ loops > 0 THEN loops - 1 ELSE loops
  /\ rafRef' = FALSE
  /\ poseRef' = FALSE /\ faceRef' = FALSE /\ streamRef' = FALSE
  /\ baselineFace' = NoBaseline /\ baselineFaceSamples' = << >>
  /\ baselineShoulderX' = NoBaseline /\ baselineNeckY' = NoBaseline
  /\ baselinePoseSamples' = << >>
  /\ issueMap' = EmptyIssueMap
  /\ activeStates' = << >>
  /\ distanceSignal' = Null
  /\ currentPostureState' = "no_person" /\ primaryRef' = "no_person"
  /\ coach' = CoachReset
  /\ candRun' = NoRun /\ lost' = FALSE /\ reminderTicks' = << >>
  /\ stoppedAt' = startCalls
  /\ UNCHANGED << now, lastFrameTs, starting, startCalls, events, firstStart,
                  notifier, reminders >>

\* lines 277-280
Pause ==
  /\ pausedRef' = ~pausedRef
  /\ isPaused' = ~pausedRef
  /\ UNCHANGED << now, lastFrameTs, runningRef, isRunning, starting,
                  startCalls, rafRef, loops, inputs, published,
                  distanceSignal, events, baselines, issueMap, coach, history,
                  notifier, reminders >>

\* ------------------------------------------------------------ frame loop
\* LoopRuns without the paused flag.
LoopRunsIgnoringPause == runningRef /\ poseRef

\* line 459 and line 463 (the video element stays attached once start()
\* found it): the loop goes on to read the clock
LoopRuns == runningRef /\ ~pausedRef /\ poseRef

\* FrameDropped without a cap.
FrameDroppedNever == now < lastFrameTs

\* lines 465-468: the frame comes too soon after the last processed one
FrameDropped == (now - lastFrameTs) * fpsCap < 1000

\* line 478
NoPerson(f) == f.n < MinLandmarks

\* LowVisibility with no visibility gate.
LowVisibilityNever(f) == f.vis < 0

\* lines 504-507
LowVisibility(f) == f.vis < MinVisibility

\* PersonLost emitting on every tick without a person.
PersonLostEveryTick ==
  /\ primaryRef' = "no_person"
  /\ currentPostureState' = "no_person"
  /\ activeStates' = << >>
  /\ events' = emit(events, [ type |-> "person_lost", ts |-> DateNow(now),
                              payload |-> << >> ])
  /\ lost' = TRUE
  /\ UNCHANGED << distanceSignal, baselines, issueMap, coach, candRun,
                  reminderTicks >>

\* lines 478-487: the frame has no usable landmarks
PersonLost ==
  /\ primaryRef' = "no_person"
  /\ currentPostureState' = "no_person"
  /\ activeStates' = IF primaryRef # "no_person" THEN << >> ELSE activeStates
  /\ events' = IF primaryRef # "no_person"
               THEN emit(events, [ type |-> "person_lost", ts |-> DateNow(now),
                                   payload |-> << >> ])
               ELSE events
  /\ lost' = TRUE
  /\ UNCHANGED << distanceSignal, baselines, issueMap, coach, candRun,
                  reminderTicks >>

\* lines 489-659: the frame is classified, debounced and coached
Usable(f) ==
  LET pose == PoseCalibration(baselineShoulderX, baselineNeckY,
                              baselinePoseSamples, f)
      face == FaceCalibration(baselineFace, baselineFaceSamples, f, faceRef)
      candidates == Candidates(f, baselineFace, pose.shoulderX, faceRef)
      map == updateStableIssues(issueMap, now, candidates)
      newActives == ActiveIssues(map)
      primary == Primary(newActives)
      ct == coachTick(coach, now, newActives, primary)
  IN /\ baselineShoulderX' = pose.shoulderX
     /\ baselineNeckY' = pose.neckY
     /\ baselinePoseSamples' = pose.samples
     /\ baselineFace' = face.face
     /\ baselineFaceSamples' = face.samples
     /\ distanceSignal' = IF FaceSeen(f, faceRef) THEN f.face ELSE distanceSignal
     /\ issueMap' = map
     /\ activeStates' = newActives
     /\ primaryRef' = primary
     /\ currentPostureState' = primary
     /\ coach' = ct.c
     /\ events' = EmitAll(events, ct.ev)
     /\ candRun' = [ i \in Issues |->
                       IF InSeq(candidates, i)
                       THEN IF candRun[i] = Null THEN now ELSE candRun[i]
                       ELSE Null ]
     /\ lost' = FALSE
     /\ reminderTicks' = reminderTicks \o [ i \in 1..Len(ct.ev) |-> now ]

\* lines 457-687: one animation frame callback, the landmarker returning f
Frame(f) ==
  /\ loops > 0
  /\ rafRef' = TRUE
  /\ UNCHANGED << now, lifecycle, starting, startCalls, loops, inputs,
                  firstStart, stoppedAt, lastHandledTsRef, toasts,
                  reminders >>
  /\ IF ~LoopRuns \/ FrameDropped
     THEN UNCHANGED << lastFrameTs, published, distanceSignal, events,
                       baselines, issueMap, coach, candRun, lost,
                       reminderTicks >>
     ELSE /\ lastFrameTs' = now
          /\ IF NoPerson(f) THEN PersonLost
             ELSE IF LowVisibility(f)
             THEN UNCHANGED << published, distanceSignal, events, baselines,
                               issueMap, coach, candRun, lost, reminderTicks >>
             ELSE Usable(f)
  /\ effectDue' = (effectDue \/ events' # events)

\* The clock advances by one of the steps, while it is below max.
Elapse(steps, max) ==
  /\ \E d \in steps : now + d <= max /\ now' = now + d
  /\ UNCHANGED << lastFrameTs, lifecycle, starting, startCalls, rafRef, loops,
                  inputs, published, distanceSignal, events, baselines,
                  issueMap, coach, history, notifier, reminders >>

\* ---------------------------------------------------------- specifications
\* The hook from its mounting on: every call and callback, in any order.
Next ==
  \/ \E attached \in BOOLEAN : StartCall(attached)
  \/ StartCamera
  \/ StartPose
  \/ StartFace
  \/ StartFail
  \/ Stop
  \/ Pause
  \/ \E f \in Frames : Frame(f)
  \/ Elapse(FineSteps, MaxNow)

Spec == Init /\ [][Next]_vars

\* The state a first start() leaves when it ends at time t: Init after
\* StartCall, StartCamera, StartPose and StartFace.
Started(t) ==
  /\ now = t
  /\ lastFrameTs = 0
  /\ runningRef = TRUE /\ pausedRef = FALSE
  /\ isRunning = TRUE /\ isPaused = FALSE
  /\ starting = [ a \in StartAwaits |-> 0 ]
  /\ startCalls = 1
  /\ rafRef = TRUE /\ loops = 1
  /\ streamRef = TRUE /\ poseRef = TRUE /\ faceRef = TRUE
  /\ currentPostureState = "good" /\ primaryRef = "good"
  /\ activeStates = << >>
  /\ distanceSignal = Null
  /\ events = << >>
  /\ baselineFace = NoBaseline /\ baselineFaceSamples = << >>
  /\ baselineShoulderX = NoBaseline /\ baselineNeckY = NoBaseline
  /\ baselinePoseSamples = << >>
  /\ issueMap = EmptyIssueMap
  /\ coach = CoachReset
  /\ candRun = NoRun /\ lost = FALSE /\ reminderTicks = << >>
  /\ firstStart = << EngineState >>
  /\ stoppedAt = Null
  /\ lastHandledTsRef = 0 /\ toasts = << >> /\ effectDue = FALSE
  /\ reminderState = defaultReminderState(DateNow(now))
  /\ permission = "default" /\ pendingNotify = {} /\ appEvents = << >>

\* One run of the engine, frame by frame, the clock in steps that straddle
\* persistMs and clearMs.
InitRun == Started(InitNow)

NextRun ==
  \/ \E f \in Frames : Frame(f)
  \/ Elapse(FineSteps, MaxNowRun)

SpecRun == InitRun /\ [][NextRun]_vars

\* One run of the engine started soon after the page loaded, the clock in
\* steps of the coaching scale.
NextCoach ==
  \/ \E f \in CoachFrames : Frame(f)
  \/ Elapse(CoachSteps, MaxNowCoach)

SpecCoach == InitRun /\ [][NextCoach]_vars

\* One run of the engine started when the page has been open for
\* InitNowLate ms.
InitLate == Started(InitNowLate)

NextLate ==
  \/ \E f \in CoachFrames : Frame(f)
  \/ Elapse(CoachSteps, MaxNowLate)

SpecLate == InitLate /\ [][NextLate]_vars

\* One run of the engine through its calibration: an animation frame every
\* CalibSteps ms, each one processed; the user sits still (BaseFrame) until
\* the last samples, then moves.
CalibSteps == { 40 }

CalibFrames ==
  IF Len(baselinePoseSamples) < CalibrationSamples - 2
  THEN { BaseFrame }
  ELSE { BaseFrame,
         [BaseFrame EXCEPT !.face = Null],
         [BaseFrame EXCEPT !.face = 140, !.shoulderX = 600, !.neckY = 200] }

NextCalib ==
  \/ \E f \in CalibFrames : Frame(f)
  \/ lastFrameTs = now /\ Elapse(CalibSteps, MaxNowCalib)

SpecCalib == InitRun /\ [][NextCalib]_vars

\* One run of the engine with animation frames closer together than the
\* cap allows: the clock in steps of half the least distance.
FpsSteps == { 17 }

NextFps ==
  \/ \E f \in CoachFrames : Frame(f)
  \/ Elapse(FpsSteps, MaxNowFps)

SpecFps == InitRun /\ [][NextFps]_vars

\* One run of the engine started when the page has been open for
\* InitNowLate ms, with frames that show two issues at once.
TriggerFrames ==
  { BaseFrame,
    [BaseFrame EXCEPT !.shouldersYDiff = 40],
    [BaseFrame EXCEPT !.noseEyeDeltaY = 70, !.shouldersYDiff = 40] }

NextTrigger ==
  \/ \E f \in TriggerFrames : Frame(f)
  \/ Elapse(CoachSteps, MaxNowTrigger)

SpecTrigger == InitLate /\ [][NextTrigger]_vars

\* One run of the engine started when the page has been open for
\* InitNowLate ms, in which the animation frames keep coming, each with a
\* person in view, and the clock keeps advancing up to MaxNowLive.
NextLive ==
  \/ \E f \in TriggerFrames : Frame(f)
  \/ Elapse(CoachSteps, MaxNowLive)

\* line 457: the browser keeps calling loop, so a frame that is due (the
\* clock has passed the last processed frame) is processed.
FrameProcessed == lastFrameTs # now /\ lastFrameTs' = now

SpecLive ==
  /\ InitLate
  /\ [][NextLive]_vars
  /\ WF_lastFrameTs(FrameProcessed)
  /\ WF_vars(Elapse(CoachSteps, MaxNowLive))

\* One run of the engine, the clock in fine steps, in which the animation
\* frames keep coming, each with a person in view and visible shoulders, and
\* the clock keeps advancing up to MaxNowRun.
UsableFrames == { f \in Frames : f.n >= MinLandmarks /\ f.vis >= MinVisibility }

NextClear ==
  \/ \E f \in UsableFrames : Frame(f)
  \/ Elapse(FineSteps, MaxNowRun)

SpecClear ==
  /\ InitRun
  /\ [][NextClear]_vars
  /\ WF_lastFrameTs(FrameProcessed)
  /\ WF_vars(Elapse(FineSteps, MaxNowRun))

\* One run of the engine in which the user's head goes down and up: an
\* animation frame every PairSteps ms, closer together than clearMs exceeds
\* persistMs.
PairSteps == { 150 }

PairFrames ==
  { BaseFrame,
    [BaseFrame EXCEPT !.noseEyeDeltaY = 70],
    [BaseFrame EXCEPT !.noseEyeDeltaY = 20] }

NextPair ==
  \/ \E f \in PairFrames : Frame(f)
  \/ Elapse(PairSteps, MaxNowRun)

SpecPair == InitRun /\ [][NextPair]_vars

\* One run of the engine that fills the event log: an animation frame every
\* LogSteps ms, each one processed, the person leaving the view on every
\* second frame; once the log is nearly full the engine may be stopped and
\* started again.
LogSteps == { 40 }

LogFrames == IF lost THEN { BaseFrame } ELSE { [BaseFrame EXCEPT !.n = 0] }

LogNearlyFull == Len(events) >= EventLogCap - 1

NextLog ==
  \/ \E f \in LogFrames : Frame(f)
  \/ lastFrameTs = now /\ Elapse(LogSteps, MaxNowLog)
  \/ LogNearlyFull /\ Stop
  \/ LogNearlyFull /\ StartCall(TRUE)
  \/ StartCamera
  \/ StartPose
  \/ StartFace

SpecLog == InitRun /\ [][NextLog]_vars

\* src/src/lib/stats/compute.ts lines 229-252: the effect of
\* useCoachNotifier, which React runs some time after the event log changed,
\* once for all the changes made since it last ran.  It looks at the newest
\* event of the log.
NotifierEffect ==
  /\ effectDue
  /\ effectDue' = FALSE
  /\ IF events = << >> \/ events[1].type # "coach_reminder"
          \/ events[1].ts <= lastHandledTsRef
     THEN UNCHANGED << lastHandledTsRef, toasts >>
     ELSE /\ lastHandledTsRef' = events[1].ts
          /\ toasts' = Append(toasts, events[1].ts)
  /\ UNCHANGED << now, lastFrameTs, lifecycle, starting, startCalls, rafRef,
                  loops, inputs, published, distanceSignal, events, baselines,
                  issueMap, coach, history, reminders >>

\* One run of the engine started when the page has been open for
\* InitNowLate ms, in steps of the coaching scale, on a page that uses
\* useCoachNotifier.
NextNotify ==
  \/ \E f \in CoachFrames : Frame(f)
  \/ Elapse(CoachSteps, MaxNowNotify)
  \/ NotifierEffect

SpecNotify == InitLate /\ [][NextNotify]_vars

\* useReminders.ts lines 20-42: PollMs later the interval's callback runs.
\* For every type that shouldTrigger allows it gives the event to onEvent
\* and calls notify; with the permission undecided notify waits for the
\* user's answer and the callback is left pending, otherwise it returns and
\* the callback goes on to markDone.
RemindPoll ==
  /\ now + PollMs <= MaxNowRemind
  /\ now' = now + PollMs
  /\ LET t == DateNow(now')
         due == FilterOrder(ReminderTypes,
                  { ReminderTypes[k] : k \in
                      { j \in 1..Len(ReminderTypes) :
                          shouldTrigger(ReminderTypes[j], ReminderSettings,
                                        reminderState, t) } })
     IN /\ appEvents' = appEvents
                          \o [ k \in 1..Len(due) |-> eventForReminder(due[k], t) ]
        /\ IF permission = "default"
           THEN /\ pendingNotify' = pendingNotify \cup
                                      { due[k] : k \in 1..Len(due) }
                /\ UNCHANGED reminderState
           ELSE /\ reminderState' = MarkAllDone(due, reminderState, t)
                /\ UNCHANGED pendingNotify
  /\ UNCHANGED << lastFrameTs, lifecycle, starting, startCalls, rafRef, loops,
                  inputs, published, distanceSignal, events, baselines,
                  issueMap, coach, history, notifier, permission >>

\* engine.ts lines 74-76 and useReminders.ts lines 37-40: the user answers
\* the permission prompt (or dismisses it: "default"), notify returns and
\* every pending callback goes on to markDone.
PermissionAnswer(answer) ==
  /\ permission = "default" /\ pendingNotify # {}
  /\ permission' = answer
  /\ reminderState' = MarkAllDone(FilterOrder(ReminderTypes, pendingNotify),
                                  reminderState, DateNow(now))
  /\ pendingNotify' = {}
  /\ UNCHANGED << now, lastFrameTs, lifecycle, starting, startCalls, rafRef,
                  loops, inputs, published, distanceSignal, events, baselines,
                  issueMap, coach, history, notifier, appEvents >>

\* useReminders.ts line 49
Snooze10 ==
  /\ reminderState' = snoozeMinutes(reminderState, SnoozeMin, DateNow(now))
  /\ UNCHANGED << now, lastFrameTs, lifecycle, starting, startCalls, rafRef,
                  loops, inputs, published, distanceSignal, events, baselines,
                  issueMap, coach, history, notifier, permission,
                  pendingNotify, appEvents >>

\* The dashboard page with useReminders enabled, from its mounting on.
NextRemind ==
  \/ RemindPoll
  \/ \E answer \in { "granted", "denied", "default" } : PermissionAnswer(answer)
  \/ Snooze10

SpecRemind == Init /\ [][NextRemind]_vars

\* ------------------------------------------------------------------ claims
\* A step is a usable tick of frame f: the loop ran, kept the frame, found
\* a person and visible shoulders, and so called updateStableIssues.
UsableTick(f) ==
  /\ Frame(f)
  /\ LoopRuns /\ ~FrameDropped
  /\ ~NoPerson(f) /\ ~LowVisibility(f)

\* A step is a tick whose frame f has no usable landmarks.
NoPersonTick(f) ==
  /\ Frame(f)
  /\ LoopRuns /\ ~FrameDropped
  /\ NoPerson(f)

IsActive(map, i) == i \in DOMAIN map /\ map[i].active

\* C1. Debounce persist: on every tick of updateStableIssues, an issue whose
\* unbroken run of candidate ticks spans less than persistMs does not become
\* active; an issue whose run spans at least persistMs is active, so it
\* becomes active at the first such tick; and an issue that is absent while
\* not active has its since cleared, so an earlier run gives no credit.
DebouncePersist ==
  [][ \A f \in Frames : UsableTick(f) =>
        \A i \in Issues :
          /\ (candRun'[i] # Null /\ now - candRun'[i] < persistMs
                /\ ~IsActive(issueMap, i))
               => ~IsActive(issueMap', i)
          /\ (candRun'[i] # Null /\ now - candRun'[i] >= persistMs)
               => IsActive(issueMap', i)
          /\ (candRun'[i] = Null /\ ~IsActive(issueMap, i))
               => (issueMap'[i].since = Null /\ ~IsActive(issueMap', i))
    ]_vars

\* An issue is active at the tick at which its run of candidate ticks
\* reached persistMs.
DebouncePersistWitness ==
  \E i \in Issues :
    /\ IsActive(issueMap, i)
    /\ candRun[i] # Null
    /\ lastFrameTs = now
    /\ now - candRun[i] = persistMs
    /\ issueMap[i].since = candRun[i]

\* C2. Debounce clear asymmetry: on every tick of updateStableIssues, an
\* active issue that is absent stays active while now - lastSeen < clearMs
\* and becomes inactive, its since cleared, once now - lastSeen >= clearMs;
\* an active issue that is a candidate stays active and its lastSeen is now.
DebounceClear ==
  [][ \A f \in Frames : UsableTick(f) =>
        \A i \in Issues : IsActive(issueMap, i) =>
          IF candRun'[i] # Null
          THEN IsActive(issueMap', i) /\ issueMap'[i].lastSeen = now
          ELSE /\ issueMap'[i].lastSeen = issueMap[i].lastSeen
               /\ IF now - issueMap[i].lastSeen < clearMs
                  THEN IsActive(issueMap', i)
                  ELSE ~IsActive(issueMap', i) /\ issueMap'[i].since = Null
    ]_vars

\* An issue is still active on a tick without it, after it reappeared: its
\* activation is more than clearMs + persistMs old and its last sighting less
\* than clearMs.
DebounceClearWitness ==
  \E i \in Issues :
    /\ IsActive(issueMap, i)
    /\ candRun[i] = Null
    /\ lastFrameTs = now
    /\ now - issueMap[i].lastSeen < clearMs
    /\ now - issueMap[i].since >= persistMs + clearMs

\* C6. Person loss: a tick without usable landmarks sets primary to
\* no_person and the published active list to empty; it emits person_lost
\* when the run's latest frame that was not skipped had a person (or there
\* was none yet), and emits nothing when that frame had no person either.
PersonLostOnce ==
  [][ \A f \in Frames : NoPersonTick(f) =>
        /\ primaryRef' = "no_person"
        /\ currentPostureState' = "no_person"
        /\ activeStates' = << >>
        /\ IF lost THEN events' = events
           ELSE events' = << [ type |-> "person_lost", ts |-> DateNow(now),
                               payload |-> << >> ] >> \o events
    ]_vars

\* The person was lost twice, and is lost: two person_lost events, the
\* second after a usable frame.
PersonLostOnceWitness ==
  /\ lost
  /\ primaryRef = "no_person"
  /\ Len(events) = 2
  /\ events[1].type = "person_lost" /\ events[2].type = "person_lost"
  /\ DateNow(lastFrameTs) > events[1].ts

IndexOf(i) == CHOOSE k \in 1..Len(ISSUE_ORDER) : ISSUE_ORDER[k] = i

\* C7. Primary selection: after every usable tick the published active list
\* holds exactly the active issues in ISSUE_ORDER order, and primary is the
\* active issue that comes first in ISSUE_ORDER, or good when none is active.
PrimarySelection ==
  [][ \A f \in Frames : UsableTick(f) =>
        LET act == { i \in Issues : IsActive(issueMap', i) }
        IN /\ { activeStates'[k] : k \in 1..Len(activeStates') } = act
           /\ \A k \in 1..Len(activeStates') - 1 :
                IndexOf(activeStates'[k]) < IndexOf(activeStates'[k + 1])
           /\ primaryRef' =
                IF act = {} THEN "good"
                ELSE CHOOSE i \in act : \A j \in act : IndexOf(i) <= IndexOf(j)
           /\ currentPostureState' = primaryRef'
    ]_vars

\* The active set {shoulders_unlevel, head_down} gives primary head_down.
PrimarySelectionWitness ==
  /\ activeStates = << "head_down", "shoulders_unlevel" >>
  /\ primaryRef = "head_down"
  /\ currentPostureState = "head_down"

\* The bad issues of the active list whose streak reaches continuousBadMs
\* on the tick that ends in the primed state, as indices of that list.
Sustained ==
  { k \in 1..Len(activeStates') :
      /\ isBadState(activeStates'[k])
      /\ MapGet(coach.continuousMs, activeStates'[k], 0)
           + (now - coach.lastTick) >= continuousBadMs }

\* The cooldown is satisfied: no reminder was emitted in this run, or the
\* last one is at least cooldownMs old.
CooldownSatisfied ==
  \/ reminderTicks = << >>
  \/ now - reminderTicks[Len(reminderTicks)] >= cooldownMs

\* A step emits exactly one event, a coach_reminder.
OneReminder ==
  /\ Len(events') = Len(events) + 1
  /\ events'[1].type = "coach_reminder"
  /\ SubSeq(events', 2, Len(events')) = events

\* C3. Immediate coaching trigger: on a coaching tick at which the streak of
\* an active bad issue reaches continuousBadMs while the cooldown is
\* satisfied (no reminder yet in this run, or the last one at least
\* cooldownMs ago), exactly one coach_reminder is emitted, its topBad the
\* first such issue of the active list, lastReminderAt becomes now and that
\* issue's streak becomes 0.
ImmediateTrigger ==
  [][ \A f \in Frames :
        (UsableTick(f) /\ coach.lastTick # Null
           /\ Sustained # {} /\ CooldownSatisfied)
        => LET k == CHOOSE k \in Sustained : \A j \in Sustained : k <= j
               i == activeStates'[k]
           IN /\ OneReminder
              /\ events'[1].payload.topBad = i
              /\ coach'.lastReminderAt = now
              /\ MapGet(coach'.continuousMs, i, Null) = 0
    ]_vars

\* C4. Window dominance trigger: on a coaching tick that closes a window
\* (now - windowStart >= windowMs) while no issue qualifies for the
\* immediate trigger, exactly one coach_reminder is emitted if the window's
\* badMs is at least badDominanceMs and the cooldown is satisfied, none is
\* emitted if badMs is below badDominanceMs, and the window is reset.
WindowDominance ==
  [][ \A f \in Frames :
        (UsableTick(f) /\ coach.lastTick # Null /\ coach.windowStart # Null
           /\ now - coach.windowStart >= windowMs /\ Sustained = {})
        => LET badNow == \E k \in 1..Len(activeStates') :
                           isBadState(activeStates'[k])
               badMs == coach.badMs
                          + (IF badNow THEN now - coach.lastTick ELSE 0)
           IN /\ (badMs >= badDominanceMs /\ CooldownSatisfied) => OneReminder
              /\ badMs < badDominanceMs => events' = events
              /\ coach'.windowStart = now
              /\ coach'.goodMs = 0 /\ coach'.badMs = 0
              /\ coach'.stateMs = << >>
    ]_vars

\* C5. Cooldown enforcement: the ticks of any two coach reminders of a run
\* are at least cooldownMs apart, the log holds one coach_reminder per such
\* tick, and a tick less than cooldownMs after the run's last reminder
\* emits nothing and leaves lastReminderAt alone.
CooldownEnforced ==
  /\ [](/\ \A k \in 1..Len(reminderTicks) - 1 :
             reminderTicks[k + 1] - reminderTicks[k] >= cooldownMs
        /\ Cardinality({ k \in 1..Len(events) :
                           events[k].type = "coach_reminder" })
             = Len(reminderTicks)
        /\ reminderTicks # << >> =>
             coach.lastReminderAt = reminderTicks[Len(reminderTicks)])
  /\ [][ \A f \in Frames :
           (UsableTick(f) /\ reminderTicks # << >>
              /\ now - reminderTicks[Len(reminderTicks)] < cooldownMs)
           => /\ events' = events
              /\ coach'.lastReminderAt = coach.lastReminderAt
       ]_vars

\* Two reminders of one run, the second exactly cooldownMs after the first.
CooldownEnforcedWitness ==
  /\ Len(reminderTicks) = 2
  /\ reminderTicks[2] - reminderTicks[1] = cooldownMs
  /\ Len(events) = 2
  /\ events[1].type = "coach_reminder" /\ events[2].type = "coach_reminder"

\* The state stop() leaves, as the claim lists it.
ResetState ==
  /\ baselineFace = NoBaseline /\ baselineFaceSamples = << >>
  /\ baselineShoulderX = NoBaseline /\ baselineNeckY = NoBaseline
  /\ baselinePoseSamples = << >>
  /\ issueMap = EmptyIssueMap
  /\ coach.lastTick = Null /\ coach.windowStart = Null
  /\ coach.goodMs = 0 /\ coach.badMs = 0
  /\ coach.stateMs = << >> /\ coach.continuousMs = << >>
  /\ coach.lastReminderAt = 0
  /\ primaryRef = "no_person"

PauseStep ==
  /\ pausedRef' = ~pausedRef
  /\ runningRef' = runningRef
  /\ loops' = loops /\ rafRef' = rafRef

\* C9. Pause: an animation frame callback that runs while the engine is
\* paused, and pause() itself, change no debounce, coaching or baseline
\* state, publish nothing and emit no event; so processing resumes from the
\* state the pause found.
PauseFreezes ==
  [][ ((pausedRef /\ \E f \in Frames : Frame(f)) \/ PauseStep)
        => UNCHANGED << issueMap, coach, baselines, events, published,
                        lastFrameTs >>
    ]_vars

\* The engine is paused with a pending issue, coaching begun and a
\* calibration sample taken, and the clock has moved on since the last
\* processed frame.
PauseFreezesWitness ==
  /\ runningRef /\ pausedRef /\ isPaused
  /\ loops > 0
  /\ \E i \in Issues : i \in DOMAIN issueMap /\ issueMap[i].since # Null
  /\ coach.lastTick # Null
  /\ baselinePoseSamples # << >>
  /\ now > lastFrameTs

\* C10. Lifecycle: in every reachable state isPaused is true only while
\* isRunning is true.
PausedOnlyWhileRunning == isPaused => isRunning

\* No start() has been called since the latest stop().
StoppedNoRestart == stoppedAt # Null /\ startCalls = stoppedAt

\* C11. Stop is final until restart: while no start() has been called since
\* the latest stop() - also when an earlier start() was still awaiting its
\* camera or a landmarker at that stop() - isRunning is false, no frame is
\* processed and no event is emitted.
StopIsFinal ==
  /\ [](StoppedNoRestart => (~isRunning /\ ~runningRef))
  /\ [][ (StoppedNoRestart /\ startCalls' = startCalls)
           => UNCHANGED << lastFrameTs, events, issueMap, coach >> ]_vars

\* C12. Single tick in flight: at most one frame-processing loop is
\* scheduled at any time, also after two calls of start() that overlapped
\* while the camera or a landmarker was awaited.
SingleLoop == loops <= 1

\* The calls of start() that are waiting at an await.
InFlight == starting["camera"] + starting["pose"] + starting["face"]

\* A step is a start() that throws: a call that is waiting at an await
\* ends without requesting the loop, or a call is made while the engine is
\* not running and nothing is awaited (the video element is not attached).
StartThrows ==
  \/ InFlight' < InFlight /\ loops' = loops
  \/ startCalls' > startCalls /\ starting' = starting /\ ~runningRef

\* C13. Start failure: a start() that throws leaves the lifecycle flags as
\* they were (an idle engine stays idle, isRunning false), requests no
\* frame loop, and changes no debounce, coaching or baseline state, nothing
\* published and no event.
StartFailure ==
  [][ StartThrows =>
        /\ UNCHANGED << lifecycle, rafRef, loops, lastFrameTs, issueMap,
                        coach, baselines, published, events >>
        /\ ~isRunning => ~isRunning'
    ]_vars

\* Every start() called so far has thrown, one of them after the camera
\* was acquired: the engine is idle and no loop is requested.
StartFailureWitness ==
  /\ startCalls > 0 /\ InFlight = 0
  /\ firstStart = << >>
  /\ streamRef
  /\ ~isRunning /\ ~runningRef
  /\ loops = 0 /\ ~rafRef
  /\ issueMap = EmptyIssueMap /\ coach = CoachReset

\* C14. Low-visibility skip: a tick whose frame has at least 13 landmarks
\* and a minimum shoulder visibility below 0.05 leaves primary, the active
\* set, the debounce map, both baselines with their sample buffers, the
\* distance signal and all coaching state unchanged, and emits no event.
LowVisibilitySkip ==
  [][ \A f \in Frames :
        (Frame(f) /\ lastFrameTs' # lastFrameTs
           /\ f.n >= MinLandmarks /\ f.vis < MinVisibility)
        => UNCHANGED << published, issueMap, baselines, coach, events,
                        distanceSignal >>
    ]_vars

\* A frame was processed at this instant, after a person was seen, and
\* the coach did not tick on it: the frame was skipped for low visibility,
\* a pending issue and the calibration samples kept.
LowVisibilitySkipWitness ==
  /\ lastFrameTs = now
  /\ ~lost
  /\ coach.lastTick # Null /\ coach.lastTick < now
  /\ \E i \in Issues : i \in DOMAIN issueMap /\ issueMap[i].since # Null
                         /\ ~issueMap[i].active
  /\ baselinePoseSamples # << >>

\* C15. Baseline immutability: while the engine runs (no stop() and no
\* start() completing), once both pose baselines are set no step changes
\* them or their sample buffer, and once the face baseline is set no step
\* changes it or its sample buffer.
BaselineImmutable ==
  [][ (runningRef /\ runningRef' /\ loops' = loops) =>
        /\ (baselineShoulderX.set /\ baselineNeckY.set)
             => UNCHANGED << baselineShoulderX, baselineNeckY,
                             baselinePoseSamples >>
        /\ baselineFace.set
             => UNCHANGED << baselineFace, baselineFaceSamples >>
    ]_vars

\* All baselines are set, each from CalibrationSamples samples, and a later
\* frame with a nearer face and shifted shoulders was processed: too_close,
\* which needs the face baseline, and body_lean_right are candidates.
BaselineImmutableWitness ==
  /\ baselineShoulderX.set /\ baselineNeckY.set /\ baselineFace.set
  /\ Len(baselinePoseSamples) = CalibrationSamples
  /\ Len(baselineFaceSamples) = CalibrationSamples
  /\ candRun["too_close"] # Null
  /\ candRun["body_lean_right"] # Null
  /\ distanceSignal = 140

\* C16. Frame-rate cap: an animation frame is processed (lastFrameTs
\* becomes now) only when at least 1000 / fpsCap ms have passed since the
\* previously processed frame, so two processed ticks are at least that far
\* apart; a frame that comes earlier is dropped: it changes nothing, and
\* nothing of it is kept for a later tick.
FrameRateCap ==
  [][ \A f \in Frames : Frame(f) =>
        /\ lastFrameTs' # lastFrameTs =>
             (lastFrameTs' = now /\ (now - lastFrameTs) * fpsCap >= 1000)
        /\ (now - lastFrameTs) * fpsCap < 1000 =>
             UNCHANGED << lastFrameTs, published, distanceSignal, events,
                          baselines, issueMap, coach >>
    ]_vars

\* Two frames were processed, and no more: the second, now, less than
\* 2000 / fpsCap ms after the first, the frame in between dropped.
FrameRateCapWitness ==
  /\ lastFrameTs = now
  /\ coach.lastTick = now /\ coach.windowStart # Null
  /\ coach.windowStart < now
  /\ coach.goodMs + coach.badMs = now - coach.windowStart
  /\ (now - coach.windowStart) * fpsCap < 2000
  /\ Len(baselinePoseSamples) = 2

\* The immediate trigger fires on the tick that ends in the primed state:
\* a streak reaches continuousBadMs and line 388 finds the cooldown over.
ImmediateFires ==
  /\ Sustained # {}
  /\ now - coach.lastReminderAt >= cooldownMs

\* The coach_reminder events a step adds to the log.
NewReminders ==
  Cardinality({ k \in 1..Len(events') : events'[k].type = "coach_reminder" })
    - Cardinality({ k \in 1..Len(events) : events[k].type = "coach_reminder" })

\* C17. One reminder per tick: no tick emits more than one coach_reminder;
\* and a tick on which the immediate trigger fires emits one, does not roll
\* the window (windowStart stays, goodMs, badMs and perIssueMs keep what
\* they accumulated, this tick's dt included), sets the streak of the
\* triggering issue to 0 and leaves every other active issue's streak at
\* its accumulated value.
OneReminderPerTick ==
  [][ \A f \in Frames : UsableTick(f) =>
        /\ NewReminders <= 1
        /\ (coach.lastTick # Null /\ ImmediateFires) =>
             LET dt == now - coach.lastTick
                 act == { activeStates'[k] : k \in 1..Len(activeStates') }
                 i == activeStates'[CHOOSE k \in Sustained :
                                      \A j \in Sustained : k <= j]
             IN /\ OneReminder
                /\ events'[1].payload.topBad = i
                /\ coach'.lastReminderAt = now
                /\ coach'.windowStart = coach.windowStart
                /\ coach'.goodMs = coach.goodMs
                /\ coach'.badMs = coach.badMs + dt
                /\ \A s \in Issues \cup { "good" } :
                     MapGet(coach'.stateMs, s, 0)
                       = MapGet(coach.stateMs, s, 0)
                           + (IF s \in act THEN dt ELSE 0)
                /\ MapGet(coach'.continuousMs, i, Null) = 0
                /\ \A s \in act \ { i } :
                     MapGet(coach'.continuousMs, s, Null)
                       = MapGet(coach.continuousMs, s, 0) + dt
    ]_vars

\* The immediate trigger has just fired for head_down with
\* shoulders_unlevel active too: the streak of head_down is 0, that of
\* shoulders_unlevel is kept, and the window, although windowMs old, has
\* not rolled.
OneReminderPerTickWitness ==
  /\ coach.lastReminderAt = now /\ coach.lastTick = now
  /\ Len(reminderTicks) = 1
  /\ activeStates = << "head_down", "shoulders_unlevel" >>
  /\ MapGet(coach.continuousMs, "head_down", Null) = 0
  /\ MapGet(coach.continuousMs, "shoulders_unlevel", 0) >= continuousBadMs
  /\ now - coach.windowStart >= windowMs
  /\ coach.badMs >= windowMs

\* C18. Window rollover: on every coaching tick with
\* now - windowStart >= windowMs on which the immediate trigger does not
\* fire, the window rolls (windowStart = now, goodMs = badMs = 0, perIssueMs
\* empty), with or without a reminder and with or without the cooldown;
\* the streaks are what the tick's accumulation made them, and
\* lastReminderAt changes only if a reminder is emitted.
WindowRollover ==
  [][ \A f \in Frames :
        (UsableTick(f) /\ coach.lastTick # Null /\ coach.windowStart # Null
           /\ now - coach.windowStart >= windowMs /\ ~ImmediateFires)
        => LET dt == now - coach.lastTick
               act == IF activeStates' = << >> THEN { "good" }
                      ELSE { activeStates'[k] : k \in 1..Len(activeStates') }
           IN /\ coach'.windowStart = now
              /\ coach'.goodMs = 0 /\ coach'.badMs = 0
              /\ coach'.stateMs = << >>
              /\ \A s \in Issues \cup { "good" } :
                   MapGet(coach'.continuousMs, s, 0)
                     = IF s \in act
                       THEN MapGet(coach.continuousMs, s, 0) + dt ELSE 0
              /\ coach'.lastReminderAt
                   = IF NewReminders = 1 THEN now ELSE coach.lastReminderAt
    ]_vars

\* The window has just rolled while the cooldown of an earlier reminder
\* was active and a streak was beyond continuousBadMs: no reminder, the
\* streak kept.
WindowRolloverWitness ==
  /\ coach.lastTick = now /\ coach.windowStart = now
  /\ coach.goodMs = 0 /\ coach.badMs = 0 /\ coach.stateMs = << >>
  /\ reminderTicks # << >>
  /\ coach.lastReminderAt = reminderTicks[Len(reminderTicks)]
  /\ coach.lastReminderAt < now
  /\ now - coach.lastReminderAt < cooldownMs
  /\ \E i \in Issues : MapGet(coach.continuousMs, i, 0) >= continuousBadMs

\* perIssueMs of state s in the current window, this tick's dt included.
WindowMsAfter(s) ==
  MapGet(coach.stateMs, s, 0)
    + (IF \E k \in 1..Len(activeStates') : activeStates'[k] = s
       THEN now - coach.lastTick ELSE 0)

\* C19. topBad: the topBad of every coach_reminder a tick emits, from the
\* immediate as from the window-end trigger, is a bad issue whose
\* perIssueMs in the current window is the largest among the bad issues.
TopBadIsLargest ==
  [][ \A f \in Frames :
        (UsableTick(f) /\ coach.lastTick # Null /\ NewReminders = 1)
        => LET top == events'[1].payload.topBad
           IN /\ top \in Issues
              /\ \A s \in Issues : WindowMsAfter(s) <= WindowMsAfter(top)
    ]_vars

\* C20. Continuous streaks: after each coaching tick the streak of every
\* issue that is not in the tick's active set is 0, and the streak of every
\* active issue is its previous value plus dt, or 0 if the issue has just
\* triggered an immediate reminder; hence an issue with a streak above 0
\* was active on the latest coaching tick.
ContinuousStreaks ==
  /\ [](\A i \in Issues :
          MapGet(coach.continuousMs, i, 0) > 0 => IsActive(issueMap, i))
  /\ [][ \A f \in Frames : (UsableTick(f) /\ coach.lastTick # Null) =>
           LET dt == now - coach.lastTick
               act == { activeStates'[k] : k \in 1..Len(activeStates') }
               first == CHOOSE k \in Sustained : \A j \in Sustained : k <= j
           IN \A s \in Issues :
                MapGet(coach'.continuousMs, s, 0)
                  = IF s \notin act THEN 0
                    ELSE IF ImmediateFires /\ s = activeStates'[first] THEN 0
                    ELSE MapGet(coach.continuousMs, s, 0) + dt
       ]_vars

\* head_down, tracked, dropped out of the active set and its streak is 0,
\* while the streak of shoulders_unlevel, active on this tick, runs on.
ContinuousStreaksWitness ==
  /\ coach.lastTick = now
  /\ MapHas(coach.continuousMs, "head_down")
  /\ MapGet(coach.continuousMs, "head_down", Null) = 0
  /\ ~IsActive(issueMap, "head_down")
  /\ IsActive(issueMap, "shoulders_unlevel")
  /\ MapGet(coach.continuousMs, "shoulders_unlevel", 0) >= continuousBadMs

\* The window rolls on the tick that ends in the primed state: it is
\* windowMs old and the immediate trigger does not fire (lines 390-419).
WindowRolls ==
  /\ coach.windowStart # Null
  /\ now - coach.windowStart >= windowMs
  /\ ~ImmediateFires

\* C21. Window accounting: the first coaching tick after a reset only sets
\* lastTick and windowStart and emits nothing; every later one adds dt to
\* badMs when the active set is not empty and to goodMs otherwise, never to
\* both, and to perIssueMs of every active issue (of good when none is
\* active) and of no other state, before the window rolls, if it does.  So
\* goodMs + badMs is always the time from windowStart to the latest coaching
\* tick, and no perIssueMs entry exceeds it.
WindowAccounting ==
  /\ [](coach.windowStart # Null =>
          /\ coach.goodMs + coach.badMs = coach.lastTick - coach.windowStart
          /\ \A k \in 1..Len(coach.stateMs) :
               coach.stateMs[k].v <= coach.goodMs + coach.badMs)
  /\ [][ \A f \in Frames : UsableTick(f) =>
           IF coach.lastTick = Null
           THEN /\ coach' = [ coach EXCEPT !.lastTick = now, !.windowStart = now ]
                /\ events' = events
           ELSE LET dt == now - coach.lastTick
                    act == IF activeStates' = << >> THEN { "good" }
                           ELSE { activeStates'[k] : k \in 1..Len(activeStates') }
                IN /\ coach'.lastTick = now
                   /\ IF WindowRolls
                      THEN /\ coach'.goodMs = 0 /\ coach'.badMs = 0
                           /\ coach'.stateMs = << >>
                           /\ coach'.windowStart = now
                      ELSE /\ coach'.windowStart = coach.windowStart
                           /\ coach'.badMs = coach.badMs
                                + (IF activeStates' # << >> THEN dt ELSE 0)
                           /\ coach'.goodMs = coach.goodMs
                                + (IF activeStates' # << >> THEN 0 ELSE dt)
                           /\ \A s \in Issues \cup { "good", "no_person" } :
                                MapGet(coach'.stateMs, s, 0)
                                  = MapGet(coach.stateMs, s, 0)
                                      + (IF s \in act THEN dt ELSE 0)
       ]_vars

\* A window that holds good time and, after it, bad time, and has not
\* rolled: the sum of the two is the window's age at this tick, good and
\* shoulders_unlevel have the time of their ticks.
WindowAccountingWitness ==
  /\ coach.lastTick = now /\ coach.windowStart # Null
  /\ coach.goodMs > 0 /\ coach.badMs > 0
  /\ coach.goodMs + coach.badMs = now - coach.windowStart
  /\ MapGet(coach.stateMs, "good", 0) = coach.goodMs
  /\ MapGet(coach.stateMs, "shoulders_unlevel", 0) = coach.badMs

\* C22. Calibration: every usable frame adds one pose sample until the
\* buffer holds CalibrationSamples, and every usable frame with face
\* landmarks one face sample until its buffer holds as many; a frame without
\* face landmarks adds no face sample.  A baseline is set exactly when its
\* buffer holds CalibrationSamples samples, so on the 60th such frame since
\* start, and is the mean of those samples; neither buffer grows beyond
\* CalibrationSamples, and the two fill independently.
Calibration ==
  /\ [](/\ Len(baselinePoseSamples) <= CalibrationSamples
        /\ Len(baselineFaceSamples) <= CalibrationSamples
        /\ baselineShoulderX.set <=> Len(baselinePoseSamples) = CalibrationSamples
        /\ baselineNeckY.set <=> Len(baselinePoseSamples) = CalibrationSamples
        /\ baselineFace.set <=> Len(baselineFaceSamples) = CalibrationSamples
        /\ baselineShoulderX.set =>
             /\ baselineShoulderX.den = CalibrationSamples
             /\ baselineShoulderX.num
                  = SumSeq([ k \in 1..Len(baselinePoseSamples) |->
                             baselinePoseSamples[k].shoulderX ])
        /\ baselineNeckY.set =>
             /\ baselineNeckY.den = CalibrationSamples
             /\ baselineNeckY.num
                  = SumSeq([ k \in 1..Len(baselinePoseSamples) |->
                             baselinePoseSamples[k].neckY ])
        /\ baselineFace.set =>
             /\ baselineFace.den = CalibrationSamples
             /\ baselineFace.num = SumSeq(baselineFaceSamples))
  /\ [][ \A f \in Frames \cup CalibFrames : UsableTick(f) =>
           /\ baselinePoseSamples' =
                IF Len(baselinePoseSamples) < CalibrationSamples
                THEN Append(baselinePoseSamples,
                            [ shoulderX |-> f.shoulderX, neckY |-> f.neckY ])
                ELSE baselinePoseSamples
           /\ baselineFaceSamples' =
                IF f.face # Null /\ Len(baselineFaceSamples) < CalibrationSamples
                THEN Append(baselineFaceSamples, f.face)
                ELSE baselineFaceSamples
       ]_vars

\* The face baseline was set two frames after the pose baselines, on the
\* 62nd usable frame of the run: two frames came without face landmarks,
\* and the 60 face samples include one of a nearer face, taken after the
\* pose baselines were set.
CalibrationWitness ==
  /\ baselineShoulderX.set /\ baselineNeckY.set /\ baselineFace.set
  /\ lastFrameTs = now
  /\ now = InitNow + (CalibrationSamples + 1) * 40
  /\ baselineFaceSamples[CalibrationSamples] = 140
  /\ baselineFace.num > CalibrationSamples * 100
  /\ baselineShoulderX.num = CalibrationSamples * 500

\* The latest coaching tick emitted a reminder from the immediate trigger
\* with issue i active: lastReminderAt is that tick, the log's newest event
\* is its coach_reminder, the streak of its topBad is 0 and the window did
\* not roll.
ImmediateReminder(i) ==
  /\ coach.lastTick # Null
  /\ coach.lastReminderAt = coach.lastTick
  /\ coach.windowStart < coach.lastTick
  /\ events # << >>
  /\ events[1].type = "coach_reminder"
  /\ events[1].ts = DateNow(coach.lastTick)
  /\ InSeq(events[1].payload.states, i)
  /\ MapGet(coach.continuousMs, events[1].payload.topBad, Null) = 0

\* The latest time at which an issue is active early enough for the clock
\* to run through a streak of continuousBadMs and a cooldown after it.
LiveBy == MaxNowLive - cooldownMs - continuousBadMs

\* C23. Sustained issue is eventually coached: when usable ticks keep
\* arriving and the clock keeps advancing, an issue that is active (with a
\* streak and a cooldown of clock left) either leaves the active set or a
\* tick emits a coach_reminder from the immediate trigger while it is
\* active, whether or not a window closes.
SustainedCoached ==
  \A i \in Issues :
    (IsActive(issueMap, i) /\ now <= LiveBy)
      ~> (~IsActive(issueMap, i) \/ ImmediateReminder(i))

\* shoulders_unlevel has been active since before LiveBy and on every tick
\* since, a window-end reminder came first and started a cooldown, and the
\* immediate trigger has now fired for it.
SustainedCoachedWitness ==
  /\ ImmediateReminder("shoulders_unlevel")
  /\ events[1].payload.topBad = "shoulders_unlevel"
  /\ Len(reminderTicks) = 2
  /\ issueMap["shoulders_unlevel"].since <= LiveBy
  /\ reminderTicks[1] > issueMap["shoulders_unlevel"].since

\* The latest sighting of an issue that leaves clearMs of clock after it.
ClearBy == MaxNowRun - clearMs

\* C24. Cleared issues do not stick: when usable ticks keep arriving and the
\* clock keeps advancing, an active issue whose last sighting leaves clearMs
\* of clock either is sighted again or becomes inactive; it becomes inactive
\* on the first tick at least clearMs after its last sighting and not
\* before, that tick publishes an active list without it and a primary
\* other than it, and an issue that is not active is never in the reported
\* active list nor primary.
ClearedIssuesGo ==
  /\ \A i \in Issues :
       (IsActive(issueMap, i) /\ issueMap[i].lastSeen <= ClearBy)
         ~> (~IsActive(issueMap, i) \/ issueMap[i].lastSeen > ClearBy)
  /\ [](\A i \in Issues :
          (InSeq(activeStates, i) \/ primaryRef = i \/ currentPostureState = i)
            => IsActive(issueMap, i))
  /\ [][ \A f \in Frames : UsableTick(f) =>
           \A i \in Issues :
             (IsActive(issueMap, i) /\ ~InSeq(Candidates(f, baselineFace,
                                                baselineShoulderX', faceRef), i))
             => /\ IsActive(issueMap', i) <=> now - issueMap[i].lastSeen < clearMs
                /\ ~IsActive(issueMap', i) =>
                     /\ ~InSeq(activeStates', i)
                     /\ primaryRef' # i /\ currentPostureState' # i
       ]_vars

\* head_down was active (the coach tracked its streak), was last seen
\* clearMs or more ago and was cleared on this tick, while
\* shoulders_unlevel is active and primary.
ClearedIssuesGoWitness ==
  /\ lastFrameTs = now
  /\ MapHas(coach.continuousMs, "head_down")
  /\ ~IsActive(issueMap, "head_down")
  /\ issueMap["head_down"].since = Null
  /\ now - issueMap["head_down"].lastSeen >= clearMs
  /\ now - issueMap["head_down"].lastSeen < clearMs + 225
  /\ activeStates = << "shoulders_unlevel" >>
  /\ primaryRef = "shoulders_unlevel"

\* C25. Unobserved time is not credited: on a usable tick that follows a
\* frame without a person (lost: the run's latest frame that was not
\* skipped had none), the time up to the latest processed frame was not
\* observed, so goodMs + badMs, every perIssueMs entry and every streak grow
\* by at most the time since that frame, an immediate reminder is emitted
\* only for an issue whose streak, so counted, reached continuousBadMs, and a
\* pending issue becomes active only if its observed run and the time since
\* that frame span persistMs.
UnobservedNotCredited ==
  [][ \A f \in Frames : (UsableTick(f) /\ coach.lastTick # Null /\ lost) =>
        LET seen == now - lastFrameTs
        IN /\ ~WindowRolls =>
                /\ coach'.goodMs + coach'.badMs
                     <= coach.goodMs + coach.badMs + seen
                /\ \A s \in Issues \cup { "good" } :
                     MapGet(coach'.stateMs, s, 0)
                       <= MapGet(coach.stateMs, s, 0) + seen
           /\ \A s \in Issues \cup { "good" } :
                MapGet(coach'.continuousMs, s, 0)
                  <= MapGet(coach.continuousMs, s, 0) + seen
           /\ (NewReminders = 1 /\ coach'.windowStart = coach.windowStart) =>
                MapGet(coach.continuousMs, events'[1].payload.topBad, 0) + seen
                  >= continuousBadMs
           /\ \A i \in Issues :
                (i \in DOMAIN issueMap /\ issueMap[i].since # Null
                   /\ ~IsActive(issueMap, i) /\ IsActive(issueMap', i))
                => (issueMap[i].lastSeen - issueMap[i].since) + seen >= persistMs
    ]_vars

\* C26. Published state matches debounce state: in every reachable state
\* the published active list holds exactly the issues whose debounce entry
\* is active, so after a person_lost transition, which publishes an empty
\* list, no debounce entry is active.
PublishedMatchesDebounce ==
  { activeStates[k] : k \in 1..Len(activeStates) }
    = { i \in Issues : IsActive(issueMap, i) }

\* The pairs of issues that exclude each other.
OpposingPairs ==
  { << "head_tilt_left", "head_tilt_right" >>, << "head_down", "head_up" >>,
    << "body_lean_left", "body_lean_right" >>, << "too_close", "too_far" >> }

\* C27. No contradictory issues: no tick's candidate set holds both issues
\* of an opposing pair, and in no reachable state are both issues of an
\* opposing pair active.
NoContradictoryIssues ==
  /\ [](\A p \in OpposingPairs :
          ~(IsActive(issueMap, p[1]) /\ IsActive(issueMap, p[2])))
  /\ [][ \A f \in Frames \cup PairFrames : UsableTick(f) =>
           \A p \in OpposingPairs :
             ~(candRun'[p[1]] # Null /\ candRun'[p[2]] # Null) ]_vars

\* C28. Bounded event log: the log never holds more than EventLogCap events
\* and is ordered newest first; a step that changes it puts one new event,
\* of this instant, in front of the events it held and drops what lies
\* beyond EventLogCap; and no step of stop() or start() changes it.
BoundedEventLog ==
  /\ [](/\ Len(events) <= EventLogCap
        /\ \A k \in 1..Len(events) - 1 : events[k].ts >= events[k + 1].ts)
  /\ [][ events' # events =>
           /\ events'[1].ts = DateNow(now)
           /\ Len(events') = Min(EventLogCap, Len(events) + 1)
           /\ \A k \in 2..Len(events') : events'[k] = events[k - 1]
       ]_vars
  /\ [][ (runningRef' # runningRef \/ loops' # loops
            \/ startCalls' # startCalls \/ starting' # starting)
         => events' = events ]_vars

\* The log is full and its oldest events were dropped, the run's first
\* person_lost among them; the engine was stopped and started again with
\* the log nearly full, and runs.
BoundedEventLogWitness ==
  /\ Len(events) = EventLogCap
  /\ events[EventLogCap].ts > DateNow(InitNow) + 40
  /\ stoppedAt # Null
  /\ runningRef /\ startCalls = 2
  /\ events[1].ts > events[2].ts

\* C29. Coach notifier delivery: a toast is shown only for a coach_reminder
\* of the log, never two for one reminder, and once the notifier's effect
\* has run on the log as it is, every coach_reminder in it has its toast,
\* whatever was added to the log before the effect ran.
CoachNotifierDelivery ==
  /\ \A k \in 1..Len(toasts) :
       \E j \in 1..Len(events) :
         events[j].type = "coach_reminder" /\ events[j].ts = toasts[k]
  /\ \A k, l \in 1..Len(toasts) : k # l => toasts[k] # toasts[l]
  /\ ~effectDue =>
       \A j \in 1..Len(events) :
         events[j].type = "coach_reminder" =>
           \E k \in 1..Len(toasts) : toasts[k] = events[j].ts

\* The configured minutes of the type an event of useReminders belongs to.
MinsOf(e) ==
  IF e.type = "break_reminder" THEN ReminderSettings.breakMin
  ELSE IF e.type = "water_reminder" THEN ReminderSettings.waterMin
  ELSE ReminderSettings.stretchMin

\* C30. Periodic reminders fire once per interval: any two events of one
\* reminder type are at least that type's configured minutes apart, whether
\* or not notify has returned in between, and no step emits an event at a
\* time at which a snooze is in force.
RemindersOncePerInterval ==
  /\ [](\A j, k \in 1..Len(appEvents) :
          (j < k /\ appEvents[j].type = appEvents[k].type)
            => appEvents[k].ts - appEvents[j].ts >= MinsOf(appEvents[j]) * MsPerMin)
  /\ [][ (reminderState.snoozeUntilTs # Null
            /\ DateNow(now') < reminderState.snoozeUntilTs)
         => appEvents' = appEvents ]_vars

====
